---------------------------- MODULE Spec2Model ----------------------------
(***************************************************************************)
(* A model of washcookies: the binary cookie file codec of                 *)
(* binary/bincookies.py (primitive, record, page and container layers)     *)
(* and the rule-based cookie filter of washcookies.py.                     *)
(*                                                                         *)
(* A byte string is a sequence of integers 0..255; Python's 0-based        *)
(* positions are kept, so data[pos] is Byte(data, pos).  A call that       *)
(* returns is Ok(value); a call that raises is Raise(exception, message).  *)
(***************************************************************************)
EXTENDS Integers, Sequences, FiniteSets, TLC

\* data  : the byte buffer under decode
\* origin: where the unit under decode (record, page) starts in data
\* call  : the last codec or filter call made, with its arguments
\* ret   : what that call returned or raised
\* rec   : the cookie record given to the encoder
\* cdb   : the cookie list given to the filter
\* rules : the (allow, deny, keep) rule lists given to the filter
\* pc    : the step of the run
VARIABLES data, origin, call, ret, rec, cdb, rules, pc

vars == <<data, origin, call, ret, rec, cdb, rules, pc>>

(***************************************************************************)
(* Outcomes of a call.                                                     *)
(***************************************************************************)
Ok(v) == [ok |-> TRUE, exc |-> "none", msg |-> "none", val |-> v]

Raise(e, m) == [ok |-> FALSE, exc |-> e, msg |-> m, val |-> <<>>]

\* The codec's own exception class and the messages it is raised with.
CodecError(m) == Raise("bincookies.error", m)

None == [ok |-> FALSE, exc |-> "none", msg |-> "not called", val |-> <<>>]

(***************************************************************************)
(* Python sequence helpers.                                                *)
(***************************************************************************)
Byte(s, p) == s[p + 1]

\* s[a:b] for 0 <= a, clipped to the sequence as Python clips a slice.
Slice(s, a, b) ==
    LET hi == IF b > Len(s) THEN Len(s) ELSE b
    IN  IF a >= hi THEN <<>> ELSE SubSeq(s, a + 1, hi)

RECURSIVE Concat(_)
Concat(ss) == IF ss = <<>> THEN <<>> ELSE Head(ss) \o Concat(Tail(ss))

RECURSIVE Pow2(_)
Pow2(n) == IF n = 0 THEN 1 ELSE 2 * Pow2(n - 1)

(***************************************************************************)
(* Program constants.                                                      *)
(***************************************************************************)
mac_abs_epoch == 978336000

\* 'cook'
FILE_MAGIC == <<99, 111, 111, 107>>

PAGE_MAGIC == 256

(***************************************************************************)
(* Primitive codec.                                                        *)
(***************************************************************************)
\* bytes(data, pos, n): exactly n bytes and the position after them.
bytes(d, pos, n) ==
    IF pos + n > Len(d)
    THEN CodecError("out of input")
    ELSE Ok([v |-> Slice(d, pos, pos + n), pos |-> pos + n])

\* struct.unpack('>I', v)
unpack_be(v) == ((v[1] * 256 + v[2]) * 256 + v[3]) * 256 + v[4]

\* struct.unpack('<I', v)
unpack_le(v) == ((v[4] * 256 + v[3]) * 256 + v[2]) * 256 + v[1]

\* struct.pack('>I', v)
pack_be(v) ==
    <<(v \div 16777216) % 256, (v \div 65536) % 256, (v \div 256) % 256, v % 256>>

\* struct.pack('<I', v)
pack_le(v) ==
    <<v % 256, (v \div 256) % 256, (v \div 65536) % 256, (v \div 16777216) % 256>>

bsize(d, pos) ==
    LET r == bytes(d, pos, 4)
    IN  IF r.ok THEN Ok([v |-> unpack_be(r.val.v), pos |-> r.val.pos]) ELSE r

lsize(d, pos) ==
    LET r == bytes(d, pos, 4)
    IN  IF r.ok THEN Ok([v |-> unpack_le(r.val.v), pos |-> r.val.pos]) ELSE r

u_bsize(v) == IF v < 0 THEN Raise("ValueError", "negative value") ELSE Ok(pack_be(v))

u_lsize(v) == IF v < 0 THEN Raise("ValueError", "negative value") ELSE Ok(pack_le(v))

\* u_bytes(data, n): data repeated and cut to n bytes.
RECURSIVE Repeat(_, _)
Repeat(s, c) == IF c = 0 THEN <<>> ELSE s \o Repeat(s, c - 1)

u_bytes(s, n) == Repeat(s, n \div Len(s)) \o Slice(s, 0, n % Len(s))

\* zstr(data, pos): the position where the scan of zstr stops.
RECURSIVE zstr_end(_, _)
zstr_end(d, pos) ==
    IF pos < Len(d) /\ Byte(d, pos) # 0 THEN zstr_end(d, pos + 1) ELSE pos

zstr(d, pos) == Slice(d, pos, zstr_end(d, pos))

HasNul(s) == \E i \in 1..Len(s) : s[i] = 0

\* An encoder that leaves the terminator out.
u_zstr_bare(s) ==
    IF HasNul(s) THEN Raise("ValueError", "string contains NUL") ELSE Ok(s)

u_zstr(s) ==
    IF HasNul(s) THEN Raise("ValueError", "string contains NUL") ELSE Ok(s \o <<0>>)

(***************************************************************************)
(* Timestamps.  A Python time value is a float (epoch seconds) or a naive  *)
(* local datetime; both are kept as the instant they denote, s whole Unix  *)
(* seconds plus h halves of a second (h = 1: microsecond 500000).  The     *)
(* local zone is taken to have no repeated wall-clock hour at the instants *)
(* used, so time.mktime inverts datetime.fromtimestamp on whole seconds.   *)
(* A double is modelled by its IEEE-754 bit pattern; DGridBits bounds the  *)
(* magnitude (in half seconds) of the doubles that are decoded to a        *)
(* number, any other bit pattern is kept as it is (kind "offgrid").        *)
(***************************************************************************)
DGridBits == 22

TS(k, s, h) == [kind |-> k, s |-> s, h |-> h, raw |-> <<>>]

RECURSIVE BitLen(_)
BitLen(a) == IF a = 0 THEN 0 ELSE 1 + BitLen(a \div 2)

\* The first k base-256 digits of the fraction f / den.
RECURSIVE FracBytes(_, _, _)
FracBytes(f, den, k) ==
    IF k = 0 THEN <<>>
    ELSE <<(f * 256) \div den>> \o FracBytes((f * 256) % den, den, k - 1)

\* struct.pack('<d', m / 2) for an integer m of at most DGridBits + 1 bits.
pack_d(m) ==
    IF m = 0 THEN <<0, 0, 0, 0, 0, 0, 0, 0>>
    ELSE LET a    == IF m < 0 THEN 0 - m ELSE m
             L    == BitLen(a)
             E    == L + 1021
             den  == Pow2(L - 1)
             f    == a - den
             sign == IF m < 0 THEN 128 ELSE 0
             n4   == (f * 16) \div den
             rest == FracBytes((f * 16) % den, den, 6)
         IN  <<rest[6], rest[5], rest[4], rest[3], rest[2], rest[1],
               (E % 16) * 16 + n4, sign + (E \div 16)>>

\* struct.unpack('<d', raw): twice the value when it is on the half-second grid.
unpack_d(raw) ==
    LET sign == raw[8] \div 128
        E    == (raw[8] % 128) * 16 + (raw[7] \div 16)
        T    == (((raw[7] % 16) * 256 + raw[6]) * 256 + raw[5]) * 256 + raw[4]
        low0 == raw[3] = 0 /\ raw[2] = 0 /\ raw[1] = 0
        L    == E - 1021
        cut  == Pow2(28 - (L - 1))
    IN  IF E = 0 /\ T = 0 /\ low0 THEN [grid |-> TRUE, nan |-> FALSE, m |-> 0]
        ELSE IF E = 2047 THEN [grid |-> FALSE, nan |-> TRUE, m |-> 0]
        ELSE IF L >= 1 /\ L <= DGridBits + 1 /\ low0 /\ T % cut = 0
        THEN [grid |-> TRUE, nan |-> FALSE,
              m |-> IF sign = 1 THEN 0 - (Pow2(L - 1) + (T \div cut))
                                ELSE Pow2(L - 1) + (T \div cut)]
        ELSE [grid |-> FALSE, nan |-> FALSE, m |-> 0]

\* dstamp(data, pos): datetime.fromtimestamp(sec + mac_abs_epoch).
dstamp(d, pos) ==
    LET r == bytes(d, pos, 8)
    IN  IF ~r.ok THEN r
        ELSE LET x == unpack_d(r.val.v)
             IN  IF x.nan THEN Raise("ValueError", "timestamp out of range")
                 ELSE IF x.grid
                 THEN Ok([v |-> TS("datetime", mac_abs_epoch + (x.m \div 2), x.m % 2),
                          pos |-> r.val.pos])
                 ELSE Ok([v |-> [kind |-> "offgrid", s |-> 0, h |-> 0, raw |-> r.val.v],
                          pos |-> r.val.pos])

\* u_dstamp(dt): a number is taken as epoch seconds, a datetime goes through
\* time.mktime(dt.timetuple()), and a time tuple has no sub-second field.
u_dstamp(dt) ==
    IF dt.kind = "float"
    THEN pack_d(2 * (dt.s - mac_abs_epoch) + dt.h)
    ELSE pack_d(2 * (dt.s - mac_abs_epoch))

(***************************************************************************)
(* Record codec.                                                           *)
(***************************************************************************)
\* The strings of cookie(), read once the fixed header has been read.
cookie_fields(d, base, urlpos, namepos, pathpos, valpos, exp, cre) ==
    [Domain  |-> zstr(d, urlpos + base),
     Name    |-> zstr(d, namepos + base),
     Path    |-> zstr(d, pathpos + base),
     Value   |-> zstr(d, valpos + base),
     Created |-> cre,
     Expires |-> exp]

\* A size test that lets a record shorter than its range pass.
size_at_most(n, size, d) == n <= (IF size # 0 THEN size ELSE Len(d))

\* The size test of cookie(): n against (size or len(data)).
size_matches(n, size, d) == n = (IF size # 0 THEN size ELSE Len(d))

\* cookie(data, pos, size)
cookie(d, pos, size) ==
    LET base == pos
        r0   == lsize(d, pos)
    IN  IF ~r0.ok THEN r0
        ELSE IF ~size_matches(r0.val.v, size, d)
        THEN CodecError("cookie size mismatch")
        ELSE
        LET r1 == bytes(d, r0.val.pos, 12) IN IF ~r1.ok THEN r1 ELSE
        LET r2 == lsize(d, r1.val.pos)     IN IF ~r2.ok THEN r2 ELSE
        LET r3 == lsize(d, r2.val.pos)     IN IF ~r3.ok THEN r3 ELSE
        LET r4 == lsize(d, r3.val.pos)     IN IF ~r4.ok THEN r4 ELSE
        LET r5 == lsize(d, r4.val.pos)     IN IF ~r5.ok THEN r5 ELSE
        LET r6 == bytes(d, r5.val.pos, 8)  IN IF ~r6.ok THEN r6 ELSE
        LET r7 == dstamp(d, r6.val.pos)    IN IF ~r7.ok THEN r7 ELSE
        LET r8 == dstamp(d, r7.val.pos)    IN IF ~r8.ok THEN r8 ELSE
        Ok(cookie_fields(d, base, r2.val.v, r3.val.v, r4.val.v, r5.val.v,
                         r7.val.v, r8.val.v))

\* u_cookie(ck)
u_cookie(ck) ==
    LET hd     == 4 + 12 + (4 * 4) + 8 + (8 * 2)
        host   == u_zstr(ck.Domain)
        name   == u_zstr(ck.Name)
        path   == u_zstr(ck.Path)
        val    == u_zstr(ck.Value)
    IN  IF ~host.ok THEN host
        ELSE IF ~name.ok THEN name
        ELSE IF ~path.ok THEN path
        ELSE IF ~val.ok THEN val
        ELSE
        LET p_host == hd
            p_name == p_host + Len(host.val)
            p_path == p_name + Len(name.val)
            p_val  == p_path + Len(path.val)
            size   == hd + Len(host.val) + Len(name.val) + Len(path.val) + Len(val.val)
        IN  Ok(Concat(<<u_lsize(size).val,
                        u_bytes(<<0>>, 12),
                        u_lsize(p_host).val,
                        u_lsize(p_name).val,
                        u_lsize(p_path).val,
                        u_lsize(p_val).val,
                        u_bytes(<<0>>, 8),
                        u_dstamp(ck.Expires),
                        u_dstamp(ck.Created),
                        host.val, name.val, path.val, val.val>>))

(***************************************************************************)
(* Page codec.                                                             *)
(***************************************************************************)
\* k consecutive little-endian sizes from pos (the loop of phead).
RECURSIVE read_lsizes(_, _, _)
read_lsizes(d, pos, k) ==
    IF k = 0 THEN Ok([v |-> <<>>, pos |-> pos])
    ELSE LET r == lsize(d, pos)
         IN  IF ~r.ok THEN r
             ELSE LET t == read_lsizes(d, r.val.pos, k - 1)
                  IN  IF ~t.ok THEN t
                      ELSE Ok([v |-> <<r.val.v>> \o t.val.v, pos |-> t.val.pos])

\* The sentinel test of phead.  Its raise statement formats the message with
\* the name ck, which phead does not define, so building the message raises
\* NameError and the codec's error is never constructed.
phead_sentinel(xs) ==
    IF xs[Len(xs)] # 0
    THEN Raise("NameError", "global name 'ck' is not defined")
    ELSE Ok(xs)

\* phead(data, pos)
phead(d, pos) ==
    LET r == lsize(d, pos)
    IN  IF ~r.ok THEN r
        ELSE LET t == read_lsizes(d, r.val.pos, r.val.v + 1)
             IN  IF ~t.ok THEN t
                 ELSE LET c == phead_sentinel(t.val.v)
                      IN  IF ~c.ok THEN c ELSE t

\* list.sort() on integers.
RECURSIVE Insert(_, _)
Insert(x, xs) ==
    IF xs = <<>> THEN <<x>>
    ELSE IF x <= Head(xs) THEN <<x>> \o xs
    ELSE <<Head(xs)>> \o Insert(x, Tail(xs))

\* A page() that forgets to sort.
Unsorted(xs) == xs

RECURSIVE Sort(_)
Sort(xs) == IF xs = <<>> THEN <<>> ELSE Insert(Head(xs), Sort(Tail(xs)))

\* The end boundary that page() stores over the sentinel.
page_end(d, pos, size) == IF size # 0 THEN size ELSE Len(d)

\* The ranges page() derives from the sorted offsets.
page_ranges(xs, base) ==
    [i \in 1..(Len(xs) - 1) |-> <<xs[i] + base, xs[i + 1] - xs[i]>>]

\* page(data, pos, size)
page(d, pos, size) ==
    LET base == pos
        r    == bsize(d, pos)
    IN  IF ~r.ok THEN r
        ELSE IF r.val.v # PAGE_MAGIC
        THEN CodecError("incorrect page magic number")
        ELSE LET h == phead(d, r.val.pos)
             IN  IF ~h.ok THEN h
                 ELSE LET xs == Sort([h.val.v EXCEPT ![Len(h.val.v)] =
                                          page_end(d, pos, size)])
                      IN  Ok([v |-> page_ranges(xs, base), pos |-> h.val.pos])

(***************************************************************************)
(* Container codec.                                                        *)
(***************************************************************************)
\* k consecutive big-endian sizes from pos (the loop of head).
RECURSIVE read_bsizes(_, _, _)
read_bsizes(d, pos, k) ==
    IF k = 0 THEN Ok([v |-> <<>>, pos |-> pos])
    ELSE LET r == bsize(d, pos)
         IN  IF ~r.ok THEN r
             ELSE LET t == read_bsizes(d, r.val.pos, k - 1)
                  IN  IF ~t.ok THEN t
                      ELSE Ok([v |-> <<r.val.v>> \o t.val.v, pos |-> t.val.pos])

\* head(data, pos)
head(d, pos) ==
    LET r == bsize(d, pos)
    IN  IF ~r.ok THEN r
        ELSE IF r.val.v > Len(d) THEN CodecError("counter too large")
        ELSE read_bsizes(d, r.val.pos, r.val.v)

\* A loop that records where each page ends instead of where it starts.
RECURSIVE page_spans_end(_, _)
page_spans_end(vs, pos) ==
    IF vs = <<>> THEN [v |-> <<>>, pos |-> pos]
    ELSE LET t == page_spans_end(Tail(vs), pos + Head(vs))
         IN  [v |-> <<<<pos + Head(vs), Head(vs)>>>> \o t.v, pos |-> t.pos]

\* The loop of cfile that turns the page sizes into (start, length) pairs.
RECURSIVE page_spans(_, _)
page_spans(vs, pos) ==
    IF vs = <<>> THEN [v |-> <<>>, pos |-> pos]
    ELSE LET t == page_spans(Tail(vs), pos + Head(vs))
         IN  [v |-> <<<<pos, Head(vs)>>>> \o t.v, pos |-> t.pos]

\* A magic test that compares the first byte only.
magic_first_byte(magic) == magic[1] = FILE_MAGIC[1]

\* The magic test of cfile.
magic_ok(magic) == magic = FILE_MAGIC

\* A cursor test that lets bytes follow the checksum.
cfile_not_past(pos, d) == pos <= Len(d)

\* The final cursor test of cfile.
cfile_done(pos, d) == pos = Len(d)

\* cfile(data, pos)
cfile(d, pos) ==
    LET m == bytes(d, pos, 4)
    IN  IF ~m.ok THEN m
        ELSE IF ~magic_ok(m.val.v) THEN CodecError("incorrect file magic")
        ELSE LET h == head(d, m.val.pos)
             IN  IF ~h.ok THEN h
                 ELSE LET sp == page_spans(h.val.v, h.val.pos)
                          ck == bytes(d, sp.pos, 8)
                      IN  IF ~ck.ok THEN ck
                          ELSE IF ~cfile_done(ck.val.pos, d)
                          THEN CodecError("incomplete parse")
                          ELSE Ok([v |-> [pages |-> sp.v, ck |-> ck.val.v],
                                   pos |-> ck.val.pos])

\* An extend that skips a record that fails to decode and goes on.
RECURSIVE extend_skipping(_, _, _)
extend_skipping(d, pg, acc) ==
    IF pg = <<>> THEN Ok(acc)
    ELSE LET c == cookie(d, Head(pg)[1], Head(pg)[2])
         IN  extend_skipping(d, Tail(pg), IF c.ok THEN Append(acc, c.val) ELSE acc)

\* result.extend(cookie(data, p, s) for p, s in pg): the first record that
\* raises ends the generator and the exception leaves extend.
RECURSIVE extend_cookies(_, _, _)
extend_cookies(d, pg, acc) ==
    IF pg = <<>> THEN Ok(acc)
    ELSE LET c == cookie(d, Head(pg)[1], Head(pg)[2])
         IN  IF ~c.ok THEN c
             ELSE extend_cookies(d, Tail(pg), Append(acc, c.val))

\* The page loop of parse_cookies.
RECURSIVE parse_pages(_, _, _)
parse_pages(d, pages, acc) ==
    IF pages = <<>> THEN Ok(acc)
    ELSE LET pg == page(d, Head(pages)[1], Head(pages)[2])
         IN  IF ~pg.ok THEN pg
             ELSE LET e == extend_cookies(d, pg.val.v, acc)
                  IN  IF ~e.ok THEN e
                      ELSE parse_pages(d, Tail(pages), e.val)

\* parse_cookies(data)
parse_cookies(d) ==
    LET f == cfile(d, 0)
    IN  IF ~f.ok THEN f ELSE parse_pages(d, f.val.v.pages, <<>>)

(***************************************************************************)
(* The cookie filter of washcookies.py.  A cookie is a record of its       *)
(* fields; a rule is a sequence of criteria [op, neg, key, arg], op one of *)
(* "=", "~", "@", "?" and neg its "!" prefix.  Strings are byte strings.   *)
(***************************************************************************)
\* str.lower()
Lower(s) == [i \in 1..Len(s) |-> IF s[i] >= 65 /\ s[i] <= 90 THEN s[i] + 32 ELSE s[i]]

\* k.lower() for the field names of a cookie.
LowerKey(k) ==
    CASE k = "Domain" -> "domain"
      [] k = "Name" -> "name"
      [] k = "Path" -> "path"
      [] k = "Value" -> "value"
      [] k = "HttpOnly" -> "httponly"
      [] OTHER -> k

\* v.endswith(a)
EndsWith(v, a) == Len(a) <= Len(v) /\ SubSeq(v, Len(v) - Len(a) + 1, Len(v)) = a

\* re.compile(a).search(v) for a pattern a without metacharacters.
Search(a, v) == \E i \in 0..(Len(v) - Len(a)) : SubSeq(v, i + 1, i + Len(a)) = a

\* match_one(op, key, arg) of match_rule
match_one(cook, c) ==
    LET exists == \E k \in DOMAIN cook : LowerKey(k) = c.key
        val    == IF exists
                  THEN cook[CHOOSE k \in DOMAIN cook : LowerKey(k) = c.key]
                  ELSE <<>>
        res    == IF c.op = "~" THEN Search(c.arg, val)
                  ELSE IF c.op = "@" /\ c.arg # <<>> /\ c.arg[1] = 46
                  THEN \/ Lower(val) = Tail(Lower(c.arg))
                       \/ EndsWith(Lower(val), Lower(c.arg))
                  ELSE IF c.op = "?" THEN exists
                  ELSE Lower(c.arg) = Lower(val)
    IN  IF c.neg THEN ~res ELSE res

\* match_rule(cookie, rule)
match_rule(cook, rule) == \A i \in 1..Len(rule) : match_one(cook, rule[i])

\* The rule a loop over the list would reach last among those that match.
last_match(rs, cook) ==
    IF \E i \in 1..Len(rs) : match_rule(cook, rs[i])
    THEN CHOOSE i \in 1..Len(rs) :
            /\ match_rule(cook, rs[i])
            /\ \A j \in (i + 1)..Len(rs) : ~match_rule(cook, rs[j])
    ELSE 0

\* for rule in rs: if match_rule(cookie, rule): ... break
\* The index of the rule the loop breaks at, 0 when it runs to its else.
RECURSIVE first_from(_, _, _)
first_from(rs, cook, i) ==
    IF i > Len(rs) THEN 0
    ELSE IF match_rule(cook, rs[i]) THEN i
    ELSE first_from(rs, cook, i + 1)

first_match(rs, cook) == first_from(rs, cook, 1)

NoReason == [none |-> TRUE, rule |-> <<>>]

Because(rule) == [none |-> FALSE, rule |-> rule]

\* kill[pos] = reason
Put(kill, pos, reason) ==
    [p \in DOMAIN kill \cup {pos} |-> IF p = pos THEN reason ELSE kill[p]]

\* A filter that looks at the keep rules only after the deny rules.
kill_deny_first(kill, pos, cook, allow, deny, keep) ==
    IF first_match(deny, cook) # 0
    THEN Put(kill, pos, Because(deny[first_match(deny, cook)]))
    ELSE IF first_match(keep, cook) # 0 THEN kill
    ELSE IF first_match(allow, cook) # 0 THEN kill
    ELSE Put(kill, pos, NoReason)

\* The body of the loop of find_bad_cookies for the cookie at pos.
kill_step(kill, pos, cook, allow, deny, keep) ==
    IF first_match(keep, cook) # 0 THEN kill
    ELSE IF first_match(deny, cook) # 0
    THEN Put(kill, pos, Because(deny[first_match(deny, cook)]))
    ELSE IF first_match(allow, cook) # 0 THEN kill
    ELSE Put(kill, pos, NoReason)

RECURSIVE find_from(_, _, _, _, _, _)
find_from(cookies, pos, allow, deny, keep, kill) ==
    IF pos >= Len(cookies) THEN kill
    ELSE find_from(cookies, pos + 1, allow, deny, keep,
                   kill_step(kill, pos, cookies[pos + 1], allow, deny, keep))

\* find_bad_cookies(cookies, allow, deny, keep)
find_bad_cookies(cookies, allow, deny, keep) ==
    find_from(cookies, 0, allow, deny, keep, <<>>)

(***************************************************************************)
(* Bounds and input pools.                                                 *)
(***************************************************************************)
\* Longest string of a cookie field.
MaxStrLen == 1

\* Bytes a string is made of: NUL and 'a'.
Alphabet == {0, 97}

Strs(n) == UNION {[1..k -> Alphabet] : k \in 0..n}

\* Creation times: a datetime on a whole second, a datetime with microsecond
\* 500000, a float before the Mac epoch with a fraction, a whole float.
Stamps ==
    {TS("datetime", mac_abs_epoch + 5, 0), TS("datetime", mac_abs_epoch + 5, 1),
     TS("float", mac_abs_epoch - 7, 1), TS("float", mac_abs_epoch + 5, 0)}

\* A cookie that expires an hour after it was created.
MkRecord(dm, nm, pt, vl, cre) ==
    [Domain |-> dm, Name |-> nm, Path |-> pt, Value |-> vl,
     Created |-> cre, Expires |-> TS(cre.kind, cre.s + 3600, 0)]

Records ==
    {MkRecord(dm, nm, pt, vl, cre) :
        dm \in Strs(MaxStrLen), nm \in Strs(MaxStrLen), pt \in Strs(MaxStrLen),
        vl \in Strs(MaxStrLen), cre \in Stamps}

NoNul(r) == ~HasNul(r.Domain) /\ ~HasNul(r.Name) /\ ~HasNul(r.Path) /\ ~HasNul(r.Value)

NoRecord == MkRecord(<<>>, <<>>, <<>>, <<>>, TS("float", mac_abs_epoch, 0))

NoCall == [fn |-> "none", pos |-> 0, size |-> 0]

Idle ==
    /\ data = <<>>
    /\ origin = 0
    /\ call = NoCall
    /\ ret = None
    /\ rec = NoRecord
    /\ cdb = <<>>
    /\ rules = [allow |-> <<>>, deny |-> <<>>, keep |-> <<>>]

(***************************************************************************)
(* Record round trip: a record is encoded, and the packet decoded.         *)
(***************************************************************************)
InitRoundTrip ==
    /\ data = <<>>
    /\ origin = 0
    /\ call = NoCall
    /\ ret = None
    /\ rec \in Records
    /\ cdb = <<>>
    /\ rules = [allow |-> <<>>, deny |-> <<>>, keep |-> <<>>]
    /\ pc = "record"

\* pkt = u_cookie(rec)
Encode ==
    /\ pc = "record"
    /\ call' = [fn |-> "u_cookie", pos |-> 0, size |-> 0]
    /\ ret' = u_cookie(rec)
    /\ data' = IF ret'.ok THEN ret'.val ELSE data
    /\ pc' = IF ret'.ok THEN "packet" ELSE "raised"
    /\ UNCHANGED <<origin, rec, cdb, rules>>

\* cookie(pkt): the defaults pos = 0 and size = 0.
DecodePacket ==
    /\ pc = "packet"
    /\ call' = [fn |-> "cookie", pos |-> 0, size |-> 0]
    /\ ret' = cookie(data, 0, 0)
    /\ pc' = "decoded"
    /\ UNCHANGED <<data, origin, rec, cdb, rules>>

NextRoundTrip == Encode \/ DecodePacket

SpecRoundTrip == InitRoundTrip /\ [][NextRoundTrip]_vars

(***************************************************************************)
(* Record decode: a packet is placed in a larger buffer (as a page places  *)
(* it), a header field or the last terminator is overwritten, and the      *)
(* record is decoded at its place with a size the caller supplies.         *)
(***************************************************************************)
PlainRecords ==
    {r \in {MkRecord(dm, nm, pt, vl, TS("datetime", mac_abs_epoch + 5, 0)) :
              dm \in Strs(MaxStrLen), nm \in Strs(MaxStrLen),
              pt \in Strs(MaxStrLen), vl \in Strs(MaxStrLen)} : NoNul(r)}

Prefixes == {<<>>, <<1, 2, 3>>}

Suffixes == {<<>>, <<98>>, <<98, 0>>}

\* The header places of the size field and of the four string offsets.
HeaderFields == {0, 16, 20, 24, 28}

\* data with the bytes bs written at position p.
Overwrite(d, p, bs) ==
    [i \in 1..Len(d) |-> IF i > p /\ i <= p + Len(bs) THEN bs[i - p] ELSE d[i]]

PacketLen == Len(u_cookie(rec).val)

TamperVals == {0, 55, 56, 57, PacketLen - 1, PacketLen, PacketLen + 1, PacketLen + 2}

InitRecord ==
    /\ data = <<>>
    /\ origin = 0
    /\ call = NoCall
    /\ ret = None
    /\ rec \in PlainRecords
    /\ cdb = <<>>
    /\ rules = [allow |-> <<>>, deny |-> <<>>, keep |-> <<>>]
    /\ pc = "record"

Embed(pre, suf) ==
    /\ pc = "packet"
    /\ data' = pre \o data \o suf
    /\ origin' = Len(pre)
    /\ pc' = "embedded"
    /\ UNCHANGED <<call, ret, rec, cdb, rules>>

Tamper(field, v) ==
    /\ pc = "embedded"
    /\ data' = Overwrite(data, origin + field, pack_le(v))
    /\ pc' = "tampered"
    /\ UNCHANGED <<origin, call, ret, rec, cdb, rules>>

\* The terminator of the last string (Value) is lost.
Unterminate ==
    /\ pc = "embedded"
    /\ data' = Overwrite(data, origin + PacketLen - 1, <<98>>)
    /\ pc' = "tampered"
    /\ UNCHANGED <<origin, call, ret, rec, cdb, rules>>

\* cookie(data, pos, size)
DecodeRecord(size) ==
    /\ pc \in {"embedded", "tampered"}
    /\ call' = [fn |-> "cookie", pos |-> origin, size |-> size]
    /\ ret' = cookie(data, origin, size)
    /\ pc' = "decoded"
    /\ UNCHANGED <<data, origin, rec, cdb, rules>>

NextRecord ==
    \/ Encode
    \/ \E pre \in Prefixes, suf \in Suffixes : Embed(pre, suf)
    \/ \E field \in HeaderFields, v \in TamperVals : Tamper(field, v)
    \/ Unterminate
    \/ \E size \in {0, PacketLen, PacketLen + 1} : DecodeRecord(size)

SpecRecord == InitRecord /\ [][NextRecord]_vars

(***************************************************************************)
(* Page decode: a page header with any offsets, sentinel and marker is     *)
(* laid out at some place of a buffer and decoded.                         *)
(***************************************************************************)
\* Most records a page declares.
MaxRecs == 2

\* Declared offsets are the multiples of 4 up to 4 * MaxOffWords.
MaxOffWords == 6

OffVals == {4 * i : i \in 0..MaxOffWords}

\* 0x00000100 as page() reads it, and as a little-endian writer would spell it.
PageMagics == {PAGE_MAGIC, 65536}

Sentinels == {0, 1}

BodyLens == {0, 8}

RECURSIVE le_table(_)
le_table(xs) == IF xs = <<>> THEN <<>> ELSE pack_le(Head(xs)) \o le_table(Tail(xs))

\* A page laid out by the page grammar: marker, count, offsets, sentinel, body.
PageBytes(magic, offs, sentinel, body) ==
    pack_be(magic) \o pack_le(Len(offs)) \o le_table(offs) \o pack_le(sentinel) \o body

InitPage ==
    /\ Idle
    /\ pc = "empty"

BuildPage(pre, magic, offs, sentinel, n) ==
    /\ pc = "empty"
    /\ data' = pre \o PageBytes(magic, offs, sentinel, u_bytes(<<0>>, n))
    /\ origin' = Len(pre)
    /\ pc' = "page"
    /\ UNCHANGED <<call, ret, rec, cdb, rules>>

\* page(data, pos, size)
DecodePage(size) ==
    /\ pc = "page"
    /\ call' = [fn |-> "page", pos |-> origin, size |-> size]
    /\ ret' = page(data, origin, size)
    /\ pc' = "ranges"
    /\ UNCHANGED <<data, origin, rec, cdb, rules>>

NextPage ==
    \/ \E pre \in Prefixes, magic \in PageMagics, k \in 0..MaxRecs, sentinel \in Sentinels,
          n \in BodyLens : \E offs \in [1..k -> OffVals] :
            BuildPage(pre, magic, offs, sentinel, n)
    \/ \E size \in {0, Len(data) - origin, Len(data) - origin + 4} : DecodePage(size)

SpecPage == InitPage /\ [][NextPage]_vars

(***************************************************************************)
(* Whole-file decode: a file is laid out by the file grammar from pages of *)
(* a pool (sound pages, a page with a record of the wrong size, a page     *)
(* with a bad sentinel or marker), possibly with a wrong magic, a declared *)
(* page size that is off, bytes after the checksum, or cut short.          *)
(***************************************************************************)
\* Most pages of a file.
MaxPages == 2

\* Most bytes that follow the checksum.
MaxTrail == 2

\* The longest prefix a file is cut down to.
MaxPrefix == 9

RecA == u_cookie(MkRecord(<<97>>, <<>>, <<97>>, <<>>,
                          TS("datetime", mac_abs_epoch + 5, 0))).val

RecB == u_cookie(MkRecord(<<>>, <<97>>, <<>>, <<97>>,
                          TS("datetime", mac_abs_epoch + 5, 1))).val

\* A packet whose size field is one more than its length.
WrongSize(pkt) == Overwrite(pkt, 0, pack_le(Len(pkt) + 1))

\* The offsets of records laid one after the other from offset at.
RECURSIVE record_offsets(_, _)
record_offsets(pkts, at) ==
    IF pkts = <<>> THEN <<>>
    ELSE <<at>> \o record_offsets(Tail(pkts), at + Len(Head(pkts)))

PageOf(pkts, magic, sentinel) ==
    PageBytes(magic, record_offsets(pkts, 8 + 4 * (Len(pkts) + 1)), sentinel,
              Concat(pkts))

PagePool ==
    {PageOf(<<>>, PAGE_MAGIC, 0),
     PageOf(<<RecA>>, PAGE_MAGIC, 0),
     PageOf(<<RecA, RecB>>, PAGE_MAGIC, 0),
     PageOf(<<RecB, WrongSize(RecA)>>, PAGE_MAGIC, 0),
     PageOf(<<RecB>>, PAGE_MAGIC, 1),
     PageOf(<<RecA>>, 65536, 0)}

\* 'cook' and 'cooK'
FileMagics == {FILE_MAGIC, <<99, 111, 111, 75>>}

\* The trailer of a file: 4 bytes of checksum and 0x07172005.
Checksum == <<202, 254, 0, 1, 7, 23, 32, 5>>

RECURSIVE be_table(_)
be_table(xs) == IF xs = <<>> THEN <<>> ELSE pack_be(Head(xs)) \o be_table(Tail(xs))

\* A file laid out by the file grammar; the first page size is declared
\* skew bytes too large, and trail zero bytes follow the checksum.
FileBytes(magic, pages, skew, trail) ==
    LET sizes == [i \in 1..Len(pages) |->
                     Len(pages[i]) + (IF i = 1 THEN skew ELSE 0)]
    IN  magic \o pack_be(Len(pages)) \o be_table(sizes) \o Concat(pages)
              \o Checksum \o u_bytes(<<0>>, trail)

InitFile ==
    /\ Idle
    /\ pc = "nofile"

BuildFile(magic, pages, skew, trail) ==
    /\ pc = "nofile"
    /\ data' = FileBytes(magic, pages, skew, trail)
    /\ pc' = "file"
    /\ UNCHANGED <<origin, call, ret, rec, cdb, rules>>

\* Only the first n bytes of the file are there.
Truncate(n) ==
    /\ pc = "file"
    /\ n >= 0 /\ n < Len(data)
    /\ data' = Slice(data, 0, n)
    /\ pc' = "cut"
    /\ UNCHANGED <<origin, call, ret, rec, cdb, rules>>

\* cfile(data, 0)
DecodeContainer ==
    /\ pc \in {"file", "cut"}
    /\ call' = [fn |-> "cfile", pos |-> 0, size |-> 0]
    /\ ret' = cfile(data, 0)
    /\ pc' = "container"
    /\ UNCHANGED <<data, origin, rec, cdb, rules>>

\* parse_cookies(data)
ParseCookies ==
    /\ pc \in {"file", "cut"}
    /\ call' = [fn |-> "parse_cookies", pos |-> 0, size |-> 0]
    /\ ret' = parse_cookies(data)
    /\ pc' = "parsed"
    /\ UNCHANGED <<data, origin, rec, cdb, rules>>

NextFile ==
    \/ \E magic \in FileMagics, k \in 0..MaxPages, skew \in {0, 1}, trail \in 0..MaxTrail :
          \E pages \in [1..k -> PagePool] : BuildFile(magic, pages, skew, trail)
    \/ \E n \in (0..MaxPrefix) \cup {Len(data) - 1} : Truncate(n)
    \/ DecodeContainer
    \/ ParseCookies

SpecFile == InitFile /\ [][NextFile]_vars

(***************************************************************************)
(* The filter: a cookie list and three rule lists are chosen and           *)
(* find_bad_cookies is run on them.                                        *)
(***************************************************************************)
\* Most cookies of a store.
MaxCookies == 2

\* Most deny rules.
MaxDeny == 2

Crit(op, neg, key, arg) == [op |-> op, neg |-> neg, key |-> key, arg |-> arg]

\* a.b / id / a
CookieAB == [Domain |-> <<97, 46, 98>>, Name |-> <<105, 100>>, Path |-> <<47>>,
             Value |-> <<97>>]

\* b / x, with an HttpOnly field
CookieB == [Domain |-> <<98>>, Name |-> <<120>>, Path |-> <<47>>, Value |-> <<>>,
            HttpOnly |-> <<84, 82, 85, 69>>]

\* ab / a / b
CookieAb == [Domain |-> <<97, 98>>, Name |-> <<97>>, Path |-> <<47>>, Value |-> <<98>>]

CookiePool == {CookieAB, CookieB, CookieAb}

\* .b
RuleDomain == <<Crit("@", FALSE, "domain", <<46, 98>>)>>

\* name=Id
RuleName == <<Crit("=", FALSE, "name", <<73, 100>>)>>

\* .B name!=id
RuleNotName == <<Crit("@", FALSE, "domain", <<46, 66>>),
                 Crit("=", TRUE, "name", <<105, 100>>)>>

\* httponly?
RuleHttpOnly == <<Crit("?", FALSE, "httponly", <<>>)>>

\* value~a
RuleValue == <<Crit("~", FALSE, "value", <<97>>)>>

\* The rules a deny list is made of.
DenyPool == {RuleDomain, RuleName, RuleHttpOnly}

AllowLists == {<<>>, <<RuleDomain>>, <<RuleValue, RuleHttpOnly>>}

KeepLists == {<<>>, <<RuleHttpOnly>>, <<RuleNotName, RuleName>>}

InitRules ==
    /\ Idle
    /\ pc = "norules"

\* The store and the rules that main() hands to the filter.
Load(cookies, allow, deny, keep) ==
    /\ pc = "norules"
    /\ cdb' = cookies
    /\ rules' = [allow |-> allow, deny |-> deny, keep |-> keep]
    /\ pc' = "loaded"
    /\ UNCHANGED <<data, origin, call, ret, rec>>

\* icky = find_bad_cookies(cdb, allowed, denied, kept)
FindBadCookies ==
    /\ pc = "loaded"
    /\ call' = [fn |-> "find_bad_cookies", pos |-> 0, size |-> 0]
    /\ ret' = Ok(find_bad_cookies(cdb, rules.allow, rules.deny, rules.keep))
    /\ pc' = "found"
    /\ UNCHANGED <<data, origin, rec, cdb, rules>>

NextRules ==
    \/ \E n \in 0..MaxCookies, m \in 0..MaxDeny, allow \in AllowLists, keep \in KeepLists :
          \E cookies \in [1..n -> CookiePool], deny \in [1..m -> DenyPool] :
             Load(cookies, allow, deny, keep)
    \/ FindBadCookies

SpecRules == InitRules /\ [][NextRules]_vars

(***************************************************************************)
(* The rules file ~/.cookierc.  A file is [readable, lines], its lines     *)
(* byte strings that end in a newline; a file that cannot be opened has    *)
(* readable = FALSE.  The key of a criterion is kept as the name of the    *)
(* cookie field it spells, any other key as "other" (no cookie of the      *)
(* pools has such a field).                                                *)
(***************************************************************************)
\* The characters str.isspace() and str.strip() take for white space.
IsSpace(b) == b \in {9, 10, 11, 12, 13, 32}

\* line.isspace()
isspace(s) == s # <<>> /\ \A i \in 1..Len(s) : IsSpace(s[i])

RECURSIVE lstrip(_)
lstrip(s) == IF s # <<>> /\ IsSpace(Head(s)) THEN lstrip(Tail(s)) ELSE s

RECURSIVE rstrip(_)
rstrip(s) ==
    IF s # <<>> /\ IsSpace(s[Len(s)]) THEN rstrip(SubSeq(s, 1, Len(s) - 1)) ELSE s

\* line.strip()
strip(s) == rstrip(lstrip(s))

\* s.split(sep) for a separator of one character: the parts between the
\* separators, empty parts included, one part when there is no separator.
RECURSIVE split_from(_, _, _)
split_from(s, sep, part) ==
    IF s = <<>> THEN <<part>>
    ELSE IF Head(s) = sep THEN <<part>> \o split_from(Tail(s), sep, <<>>)
    ELSE split_from(Tail(s), sep, Append(part, Head(s)))

split(s, sep) == split_from(s, sep, <<>>)

\* \w of rule_re
IsWord(b) ==
    \/ (b >= 48 /\ b <= 57) \/ (b >= 65 /\ b <= 90) \/ (b >= 97 /\ b <= 122) \/ b = 95

\* The length of the longest run of \w characters s starts with.
RECURSIVE word_len(_)
word_len(s) == IF s # <<>> /\ IsWord(Head(s)) THEN 1 + word_len(Tail(s)) ELSE 0

\* [=~@?] of rule_re
IsOp(b) == b \in {61, 126, 64, 63}

OpName(b) ==
    CASE b = 61 -> "=" [] b = 126 -> "~" [] b = 64 -> "@" [] OTHER -> "?"

\* m.group(1).lower(), as the name of the field it spells.
KeyName(w) ==
    LET k == Lower(w)
    IN  CASE k = <<100, 111, 109, 97, 105, 110>> -> "domain"
          [] k = <<110, 97, 109, 101>> -> "name"
          [] k = <<112, 97, 116, 104>> -> "path"
          [] k = <<118, 97, 108, 117, 101>> -> "value"
          [] k = <<104, 116, 116, 112, 111, 110, 108, 121>> -> "httponly"
          [] OTHER -> "other"

\* One criterion of parse_rule: rule_re.match(r), (\w+)(!?[=~@?])(.*)$, and
\* ('@', 'domain', r) when it does not match.
criterion(r) ==
    LET w    == word_len(r)
        rest == SubSeq(r, w + 1, Len(r))
    IN  IF w >= 1 /\ Len(rest) >= 2 /\ rest[1] = 33 /\ IsOp(rest[2])
        THEN Crit(OpName(rest[2]), TRUE, KeyName(SubSeq(r, 1, w)),
                  SubSeq(rest, 3, Len(rest)))
        ELSE IF w >= 1 /\ Len(rest) >= 1 /\ IsOp(rest[1])
        THEN Crit(OpName(rest[1]), FALSE, KeyName(SubSeq(r, 1, w)),
                  SubSeq(rest, 2, Len(rest)))
        ELSE Crit("@", FALSE, "domain", r)

\* parse_rule(s): the tuple (f, rs); f, sep = s[:2] needs two characters.
parse_rule(s) ==
    IF Len(s) = 0 THEN Raise("ValueError", "need more than 0 values to unpack")
    ELSE IF Len(s) = 1 THEN Raise("ValueError", "need more than 1 value to unpack")
    ELSE LET parts == split(SubSeq(s, 3, Len(s)), s[2])
         IN  Ok(<<s[1], [i \in 1..Len(parts) |-> criterion(parts[i])]>>)

\* The loop of load_rules over the lines of the file.
RECURSIVE load_lines(_, _, _, _)
load_lines(lines, a, r, k) ==
    IF lines = <<>> THEN Ok(<<a, r, k>>)
    ELSE LET line == Head(lines)
         IN  IF isspace(line) \/ (line # <<>> /\ line[1] = 35)
             THEN load_lines(Tail(lines), a, r, k)
             ELSE LET p == parse_rule(strip(line))
                  IN  IF ~p.ok THEN p
                      ELSE IF p.val[1] = 43
                      THEN load_lines(Tail(lines), Append(a, p.val[2]), r, k)
                      ELSE IF p.val[1] = 45
                      THEN load_lines(Tail(lines), a, Append(r, p.val[2]), k)
                      ELSE IF p.val[1] = 33
                      THEN load_lines(Tail(lines), a, r, Append(k, p.val[2]))
                      ELSE load_lines(Tail(lines), a, r, k)

\* What load_rules returns when open() raises: ([parse_rule('+ .')], []).
default_rules == <<<<parse_rule(<<43, 32, 46>>).val>>, <<>>>>

\* load_rules(): the tuple it returns.
load_rules(file) ==
    IF file.readable THEN load_lines(file.lines, <<>>, <<>>, <<>>)
    ELSE Ok(default_rules)

\* allowed, denied, kept = load_rules()
unpack3(r) ==
    IF ~r.ok THEN r
    ELSE IF Len(r.val) < 3
    THEN Raise("ValueError", "need more than 2 values to unpack")
    ELSE IF Len(r.val) > 3 THEN Raise("ValueError", "too many values to unpack")
    ELSE r

(***************************************************************************)
(* main(): the rules are loaded from ~/.cookierc and unpacked, and the     *)
(* cookie store is processed with them.  dry_run, the global main() sets   *)
(* from the environment, is kept with the call.                            *)
(***************************************************************************)
\* Most lines of a rules file.
MaxLines == 2

\* "+ .b", "- name=Id", "! httponly?", a comment and a line of one character.
RcLines ==
    {<<43, 32, 46, 98, 10>>,
     <<45, 32, 110, 97, 109, 101, 61, 73, 100, 10>>,
     <<33, 32, 104, 116, 116, 112, 111, 110, 108, 121, 63, 10>>,
     <<35, 32, 99, 10>>,
     <<43, 10>>}

NoFile == [readable |-> FALSE, lines |-> <<>>]

RcFiles ==
    {NoFile} \cup
    {[readable |-> TRUE, lines |-> ls] :
        ls \in UNION {[1..n -> RcLines] : n \in 0..MaxLines}}

\* Most cookies of the store main() processes.
MaxStore == 3

Stores == UNION {[1..n -> CookiePool] : n \in 0..MaxStore}

(***************************************************************************)
(* process_apple_cookies and process_binary_cookies: the cookies the       *)
(* filter picked are popped from the list, and the list is written back.   *)
(***************************************************************************)
\* The greatest position of a kill map that is not empty.
max_pos(icky) == CHOOSE p \in DOMAIN icky : \A q \in DOMAIN icky : q <= p

\* sorted(icky, reverse=True): the positions, the greatest first.
RECURSIVE sorted_reverse(_)
sorted_reverse(icky) ==
    IF DOMAIN icky = {} THEN <<>>
    ELSE <<max_pos(icky)>> \o
         sorted_reverse([p \in DOMAIN icky \ {max_pos(icky)} |-> icky[p]])

\* The positions in the order a loop over the kill map without sorted() and
\* reverse could take them: the least first.
RECURSIVE sorted_forward(_)
sorted_forward(icky) ==
    IF DOMAIN icky = {} THEN <<>>
    ELSE Append(sorted_forward([p \in DOMAIN icky \ {max_pos(icky)} |-> icky[p]]),
                max_pos(icky))

\* The order in which the positions are popped.
pop_order(icky) == sorted_reverse(icky)

\* cdb.pop(pos), for 0 <= pos: IndexError when pos is past the end.
pop(xs, pos) ==
    IF pos >= Len(xs) THEN Raise("IndexError", "pop index out of range")
    ELSE Ok(SubSeq(xs, 1, pos) \o SubSeq(xs, pos + 2, Len(xs)))

\* for pos in sorted(icky, reverse=True): cdb.pop(pos)
RECURSIVE pop_all(_, _)
pop_all(xs, ps) ==
    IF ps = <<>> THEN Ok(xs)
    ELSE LET r == pop(xs, Head(ps))
         IN  IF ~r.ok THEN [r EXCEPT !.val = xs] ELSE pop_all(r.val, Tail(ps))

\* if dry_run: (skipping write) else: if icky: write
writes(dry, icky) == ~dry /\ DOMAIN icky # {}

\* The body of process_apple_cookies and of process_binary_cookies once the
\* store has been read into cdb.  What it did is kept in ret: the list it
\* read, the kill map, whether it wrote, and the store it leaves behind.
process_cookies(kind) ==
    /\ pc = "ready"
    /\ LET icky == find_bad_cookies(cdb, rules.allow, rules.deny, rules.keep)
           left == pop_all(cdb, pop_order(icky))
       IN  /\ cdb' = left.val
           /\ ret' = IF left.ok
                     THEN Ok([read |-> cdb,
                              icky |-> icky,
                              wrote |-> writes(call.dry_run, icky),
                              store |-> IF writes(call.dry_run, icky)
                                        THEN left.val ELSE cdb])
                     ELSE left
           /\ pc' = IF left.ok THEN kind ELSE "crashed"
    /\ UNCHANGED <<data, origin, call, rec, rules>>

\* process_apple_cookies(allowed, denied, kept)
ProcessAppleCookies ==
    /\ call.fn = "main"
    /\ process_cookies("apple")

\* process_binary_cookies(allowed, denied, kept)
ProcessBinaryCookies ==
    /\ call.fn = "main"
    /\ process_cookies("binary")

InitMain ==
    /\ data = <<>>
    /\ origin = 0
    /\ call = NoCall
    /\ ret = None
    /\ rec = NoRecord
    /\ cdb \in Stores
    /\ rules = [allow |-> <<>>, deny |-> <<>>, keep |-> <<>>]
    /\ pc = "start"

\* dry_run = os.getenv('WC_DRY_RUN', False)
\* allowed, denied, kept = load_rules()
MainLoadRules(file, dry) ==
    /\ pc = "start"
    /\ call' = [fn |-> "main", pos |-> 0, size |-> 0,
                readable |-> file.readable, dry_run |-> dry]
    /\ ret' = unpack3(load_rules(file))
    /\ rules' = IF ret'.ok
                THEN [allow |-> ret'.val[1], deny |-> ret'.val[2], keep |-> ret'.val[3]]
                ELSE rules
    /\ pc' = IF ret'.ok THEN "ready" ELSE "crashed"
    /\ UNCHANGED <<data, origin, rec, cdb>>

NextMain ==
    \/ \E file \in RcFiles, dry \in BOOLEAN : MainLoadRules(file, dry)
    \/ ProcessAppleCookies
    \/ ProcessBinaryCookies

SpecMain == InitMain /\ [][NextMain]_vars

(***************************************************************************)
(* Timestamp round trip: a float of epoch seconds is encoded, the 8 bytes  *)
(* are decoded to a datetime, and the datetime is encoded again.           *)
(***************************************************************************)
\* Timestamps lie at most this many seconds from the Mac epoch, ...
MaxSecs == 12

\* ... or this many days from it.
MaxDays == 2

\* Floats on the half-second grid around the Mac epoch.
FloatStamps ==
    {TS("float", mac_abs_epoch + k, h) : k \in (0 - MaxSecs)..MaxSecs, h \in {0, 1}}
    \cup {TS("float", mac_abs_epoch + 86400 * k, h) :
             k \in (0 - MaxDays)..MaxDays, h \in {0, 1}}

InitStamp ==
    /\ data = <<>>
    /\ origin = 0
    /\ call = NoCall
    /\ ret = None
    /\ rec \in {MkRecord(<<>>, <<>>, <<>>, <<>>, t) : t \in FloatStamps}
    /\ cdb = <<>>
    /\ rules = [allow |-> <<>>, deny |-> <<>>, keep |-> <<>>]
    /\ pc = "instant"

\* raw = u_dstamp(t)
EncodeStamp ==
    /\ pc = "instant"
    /\ call' = [fn |-> "u_dstamp", pos |-> 0, size |-> 0]
    /\ data' = u_dstamp(rec.Created)
    /\ ret' = Ok(data')
    /\ pc' = "stamp"
    /\ UNCHANGED <<origin, rec, cdb, rules>>

\* dt, pos = dstamp(raw, 0)
DecodeStamp ==
    /\ pc \in {"stamp", "restamp"}
    /\ call' = [fn |-> "dstamp", pos |-> 0, size |-> 0]
    /\ ret' = dstamp(data, 0)
    /\ pc' = IF pc = "stamp" THEN "datetime" ELSE "redecoded"
    /\ UNCHANGED <<data, origin, rec, cdb, rules>>

\* raw = u_dstamp(dt)
ReencodeStamp ==
    /\ pc = "datetime"
    /\ ret.ok
    /\ call' = [fn |-> "u_dstamp", pos |-> 0, size |-> 0]
    /\ data' = u_dstamp(ret.val.v)
    /\ ret' = Ok(data')
    /\ pc' = "restamp"
    /\ UNCHANGED <<origin, rec, cdb, rules>>

NextStamp == EncodeStamp \/ DecodeStamp \/ ReencodeStamp

SpecStamp == InitStamp /\ [][NextStamp]_vars

(***************************************************************************)
(* The whole system: any of the runs above.                                *)
(***************************************************************************)
Init == InitRoundTrip \/ InitRecord \/ InitPage \/ InitFile \/ InitRules \/ InitMain
          \/ InitStamp

Next == NextRoundTrip \/ NextRecord \/ NextPage \/ NextFile \/ NextRules \/ NextMain
          \/ NextStamp

Spec == Init /\ [][Next]_vars

(***************************************************************************)
(*                               THE CLAIMS                                *)
(***************************************************************************)
\* The little-endian and big-endian 32-bit fields of the buffer at p.
FieldLE(p) == unpack_le(Slice(data, p, p + 4))

FieldBE(p) == unpack_be(Slice(data, p, p + 4))

SameInstant(a, b) == a.s = b.s /\ a.h = b.h

(***************************************************************************)
(* C1.  Record round trip: for every record whose four strings hold no     *)
(* zero byte, decoding the packet u_cookie made of it with cookie (at      *)
(* offset 0, over exactly those bytes) gives back the record: the same     *)
(* Domain, Name, Path and Value, and Created and Expires denoting the same *)
(* instants, not swapped.                                                  *)
(***************************************************************************)
C1_RecordRoundTrip ==
    (pc = "decoded" /\ call.fn = "cookie" /\ NoNul(rec)) =>
        /\ ret.ok
        /\ ret.val.Domain = rec.Domain
        /\ ret.val.Name = rec.Name
        /\ ret.val.Path = rec.Path
        /\ ret.val.Value = rec.Value
        /\ SameInstant(ret.val.Created, rec.Created)
        /\ SameInstant(ret.val.Expires, rec.Expires)

\* What does hold: the round trip of every record whose datetimes lie on a
\* whole second (floats keep their fraction).
C1_WholeSecondRoundTrip ==
    (/\ pc = "decoded" /\ call.fn = "cookie" /\ NoNul(rec)
     /\ (rec.Created.kind = "datetime" => rec.Created.h = 0)) => C1_RecordRoundTrip

(***************************************************************************)
(* C2.  As claimed: a page that page() accepts and that declares k records *)
(* decodes to k ranges that partition [headerEnd, pageEnd): the first      *)
(* starts at headerEnd = base + 8 + 4(k+1), each next one starts where the *)
(* previous ends, no length is negative, and the last ends at pageEnd =    *)
(* base + page size, whatever the declared offsets are.                    *)
(***************************************************************************)
DeclaredCount == FieldLE(origin + 4)

DeclaredOffsets == {FieldLE(origin + 8 + 4 * (i - 1)) : i \in 1..DeclaredCount}

Least(S) == CHOOSE x \in S : \A y \in S : x <= y

Greatest(S) == CHOOSE x \in S : \A y \in S : y <= x

\* k ranges, each starting where the one before ends, none of negative length.
Chained(rs, k) ==
    /\ Len(rs) = k
    /\ \A i \in 1..k : rs[i][2] >= 0
    /\ \A i \in 1..(k - 1) : rs[i + 1][1] = rs[i][1] + rs[i][2]

C3_SizeMismatch ==
    (pc = "decoded" /\ call.fn = "cookie" /\ call.size # 0
        /\ call.pos + 4 <= Len(data)) =>
        /\ FieldLE(call.pos) # call.size =>
              /\ ~ret.ok
              /\ ret.exc = "bincookies.error"
              /\ ret.msg = "cookie size mismatch"
        /\ ret.ok => FieldLE(call.pos) = call.size

\* Reached: a record inside a larger buffer whose size field is one less than
\* the size of its range is refused.
C3_Witness ==
    /\ pc = "decoded" /\ call.fn = "cookie" /\ call.size # 0 /\ call.pos > 0
    /\ FieldLE(call.pos) = call.size - 1
    /\ ~ret.ok /\ ret.msg = "cookie size mismatch"

(***************************************************************************)
(* C4.  A page whose offset table ends in a sentinel other than 0 is       *)
(* refused with the codec's own error (the exception class every other     *)
(* parse failure raises), and gives no ranges.                             *)
(***************************************************************************)
C4_SentinelError ==
    (/\ pc = "ranges"
     /\ origin + 12 + 4 * DeclaredCount <= Len(data)
     /\ FieldBE(origin) = PAGE_MAGIC
     /\ FieldLE(origin + 8 + 4 * DeclaredCount) # 0) =>
        /\ ~ret.ok
        /\ ret.exc = "bincookies.error"

(***************************************************************************)
(* C9.  In every record cookie() returns for a record at base b of size s, *)
(* each of the four strings is a zero-terminated span inside [b, b+s): it  *)
(* starts at b + offset and its terminating zero is found before b + s.    *)
(***************************************************************************)
C9_StringsInsideRecord ==
    (pc = "decoded" /\ call.fn = "cookie" /\ ret.ok) =>
        \A field \in {16, 20, 24, 28} :
            LET b     == call.pos
                s     == FieldLE(b)
                first == b + FieldLE(b + field)
                stop  == zstr_end(data, first)
            IN  /\ first < b + s
                /\ stop < b + s
                /\ stop < Len(data)
                /\ Byte(data, stop) = 0

DeclaredPages == FieldBE(4)

DeclaredSize(i) == FieldBE(8 + 4 * (i - 1))

RECURSIVE DeclaredSizeSum(_)
DeclaredSizeSum(n) == IF n = 0 THEN 0 ELSE DeclaredSize(n) + DeclaredSizeSum(n - 1)

TableReadable == Len(data) >= 8 /\ 8 + 4 * DeclaredPages <= Len(data)

\* 8 + 4n + the n declared page sizes + 8
ExactLength == 8 + 4 * DeclaredPages + DeclaredSizeSum(DeclaredPages) + 8

LastEight == Slice(data, Len(data) - 8, Len(data))

\* The layers below parse_cookies, one by one.
PageRangesOf == cfile(data, 0).val.v.pages

PageAt(i) == page(data, PageRangesOf[i][1], PageRangesOf[i][2])

RecordAt(i, j) == cookie(data, PageAt(i).val.v[j][1], PageAt(i).val.v[j][2])

RECURSIVE RecordCount(_)
RecordCount(n) == IF n = 0 THEN 0 ELSE Len(PageAt(n).val.v) + RecordCount(n - 1)

(***************************************************************************)
(* C5.  Fail-closed decode: parse_cookies returns a record list only when  *)
(* the container header, every page and every record of every page         *)
(* decodes, and the list then holds every declared record; when any of     *)
(* them fails the call raises and returns nothing, also when records       *)
(* before the failure had been decoded.                                    *)
(***************************************************************************)
C5_FailClosed ==
    (pc = "parsed" /\ ret.ok) =>
        /\ cfile(data, 0).ok
        /\ \A i \in 1..Len(PageRangesOf) :
              /\ PageAt(i).ok
              /\ \A j \in 1..Len(PageAt(i).val.v) : RecordAt(i, j).ok
        /\ Len(ret.val) = RecordCount(Len(PageRangesOf))

\* Reached: the first page and the first record of the second page decode,
\* the second record of the second page does not, and the call raises.
C5_Witness ==
    /\ pc = "parsed" /\ ~ret.ok
    /\ cfile(data, 0).ok
    /\ Len(PageRangesOf) = 2
    /\ PageAt(1).ok /\ Len(PageAt(1).val.v) = 1 /\ RecordAt(1, 1).ok
    /\ PageAt(2).ok /\ Len(PageAt(2).val.v) = 2 /\ RecordAt(2, 1).ok
    /\ ~RecordAt(2, 2).ok
    /\ ret.msg = "cookie size mismatch"

(***************************************************************************)
(* C6.  As claimed: cfile on any buffer whose first 4 bytes are not 'cook' *)
(* raises the "incorrect file magic" error, buffers shorter than 4 bytes   *)
(* included, and returns no page ranges.                                   *)
(***************************************************************************)
C6_MagicMismatchAnyLength ==
    (pc = "container" /\ Slice(data, 0, 4) # FILE_MAGIC) =>
        /\ ~ret.ok
        /\ ret.exc = "bincookies.error"
        /\ ret.msg = "incorrect file magic"

(***************************************************************************)
(* C6, amended.  cfile on a buffer of at least 4 bytes whose first 4 bytes *)
(* are not 'cook' raises the "incorrect file magic" error; on a buffer     *)
(* shorter than 4 bytes it raises the "out of input" error of bytes()      *)
(* before any comparison.  Neither returns page ranges.                    *)
(***************************************************************************)
C6_MagicMismatch ==
    (pc = "container" /\ Slice(data, 0, 4) # FILE_MAGIC) =>
        /\ ~ret.ok
        /\ ret.exc = "bincookies.error"
        /\ Len(data) >= 4 => ret.msg = "incorrect file magic"
        /\ Len(data) < 4 => ret.msg = "out of input"

\* Reached: a whole file that starts with 'cooK' is refused for its magic.
C6_Witness ==
    /\ pc = "container"
    /\ Len(data) > MaxPrefix
    /\ Slice(data, 0, 4) # FILE_MAGIC
    /\ Slice(data, 0, 3) = Slice(FILE_MAGIC, 0, 3)
    /\ ret.msg = "incorrect file magic"

C8_ContainerRanges ==
    (pc = "container" /\ ret.ok) =>
        LET n  == DeclaredPages
            pg == ret.val.v.pages
        IN  /\ Len(pg) = n
            /\ \A i \in 1..n :
                  /\ pg[i][1] = 8 + 4 * n + DeclaredSizeSum(i - 1)
                  /\ pg[i][2] = DeclaredSize(i)
                  /\ pg[i][1] + pg[i][2] <= Len(data) - 8
            /\ ret.val.v.ck = LastEight

\* The file of one page that declares no record.
OneEmptyPage == data = FileBytes(FILE_MAGIC, <<PageOf(<<>>, PAGE_MAGIC, 0)>>, 0, 0)

AnyMatch(rs, cook) == \E i \in 1..Len(rs) : match_rule(cook, rs[i])

C10_KillMap ==
    (pc = "found" /\ call.fn = "find_bad_cookies") =>
        LET kill == ret.val
        IN  /\ DOMAIN kill =
                  {p \in 0..(Len(cdb) - 1) :
                      /\ ~AnyMatch(rules.keep, cdb[p + 1])
                      /\ \/ AnyMatch(rules.deny, cdb[p + 1])
                         \/ ~AnyMatch(rules.allow, cdb[p + 1])}
            /\ \A p \in DOMAIN kill :
                  IF AnyMatch(rules.deny, cdb[p + 1])
                  THEN /\ ~kill[p].none
                       /\ \E i \in 1..Len(rules.deny) :
                             /\ match_rule(cdb[p + 1], rules.deny[i])
                             /\ \A j \in 1..(i - 1) : ~match_rule(cdb[p + 1], rules.deny[j])
                             /\ kill[p].rule = rules.deny[i]
                  ELSE kill[p].none
            /\ \A p \in 0..(Len(cdb) - 1) :
                  AnyMatch(rules.keep, cdb[p + 1]) => p \notin DOMAIN kill

\* Reached: of two cookies, the one at position 0, which two different deny
\* rules match, is killed for the first of the two, and the one at position
\* 1, which a deny rule matches too, is spared by a keep rule.
C10_Witness ==
    /\ pc = "found" /\ call.fn = "find_bad_cookies"
    /\ Len(cdb) = 2 /\ Len(rules.deny) = 2
    /\ rules.deny[1] # rules.deny[2]
    /\ \A i \in 1..2 : match_rule(cdb[1], rules.deny[i])
    /\ AnyMatch(rules.deny, cdb[2])
    /\ AnyMatch(rules.keep, cdb[2]) /\ ~AnyMatch(rules.keep, cdb[1])
    /\ DOMAIN ret.val = {0}
    /\ ret.val[0] = Because(rules.deny[1])

(***************************************************************************)
(* C11.  When ~/.cookierc cannot be read, main() unpacks what load_rules   *)
(* returns into (allowed, denied, kept) without error, and with those      *)
(* rules find_bad_cookies returns an empty kill map for every cookie list. *)
(***************************************************************************)
C11_DefaultAcceptsAll ==
    (call.fn = "main" /\ ~call.readable) =>
        /\ ret.ok
        /\ pc = "ready"
        /\ \A cookies \in Stores :
              find_bad_cookies(cookies, rules.allow, rules.deny, rules.keep) = <<>>

(***************************************************************************)
(* C12.  Timestamp round trip: for a float t of epoch seconds, with or     *)
(* without a fraction, the 8 bytes u_dstamp makes of t, decoded by dstamp  *)
(* and encoded again by u_dstamp, denote the instant t: they are the bytes *)
(* of t - 978336000, and they decode to t.                                 *)
(***************************************************************************)
C12_StampRoundTrip ==
    /\ pc = "restamp" =>
          data = pack_d(2 * (rec.Created.s - mac_abs_epoch) + rec.Created.h)
    /\ pc = "redecoded" =>
          ret.ok /\ SameInstant(ret.val.v, rec.Created)

\* What does hold: one decode of the encoded float gives t back, fraction
\* and all, and the whole round trip keeps every t on a whole second.
C12_DecodeEncoded ==
    /\ pc = "datetime" => ret.ok /\ SameInstant(ret.val.v, rec.Created)
    /\ (pc \in {"restamp", "redecoded"} /\ rec.Created.h = 0) => C12_StampRoundTrip

(***************************************************************************)
(* C13.  The packet u_cookie makes of a record whose four strings hold no  *)
(* zero byte: its size field at [0,4) is its length, 56 + the sum over the *)
(* four strings of (length + 1); the offsets at [16,20), [20,24), [24,28)  *)
(* and [28,32) are 56, 56+|Domain|+1, 56+|Domain|+|Name|+2 and             *)
(* 56+|Domain|+|Name|+|Path|+3, and at each of them stands the string      *)
(* (Domain, Name, Path, Value) followed by a zero byte; the bytes of       *)
(* [4,16) and [32,40) are zero.                                            *)
(***************************************************************************)
\* The string s and its terminator stand in the buffer at p.
StringAt(p, s) ==
    /\ p + Len(s) < Len(data)
    /\ Slice(data, p, p + Len(s)) = s
    /\ Byte(data, p + Len(s)) = 0

C13_PacketLayout ==
    (pc = "packet" /\ NoNul(rec)) =>
        LET d == Len(rec.Domain)
            n == Len(rec.Name)
            p == Len(rec.Path)
            v == Len(rec.Value)
        IN  /\ Len(data) = 56 + (d + 1) + (n + 1) + (p + 1) + (v + 1)
            /\ FieldLE(0) = Len(data)
            /\ FieldLE(16) = 56
            /\ FieldLE(20) = 56 + d + 1
            /\ FieldLE(24) = 56 + d + n + 2
            /\ FieldLE(28) = 56 + d + n + p + 3
            /\ StringAt(FieldLE(16), rec.Domain)
            /\ StringAt(FieldLE(20), rec.Name)
            /\ StringAt(FieldLE(24), rec.Path)
            /\ StringAt(FieldLE(28), rec.Value)
            /\ \A i \in (4..15) \cup (32..39) : Byte(data, i) = 0

\* Reached: the packet of a record with an empty Name between a Domain and
\* a Path of one character.
C13_Witness ==
    /\ pc = "packet"
    /\ rec.Domain = <<97>> /\ rec.Name = <<>> /\ rec.Path = <<97>> /\ rec.Value = <<97>>
    /\ Len(data) = 63
    /\ FieldLE(20) = 58 /\ FieldLE(24) = 59 /\ FieldLE(28) = 61

(***************************************************************************)
(* C14.  Size 0 stands for the remaining buffer length len(data) - pos.    *)
(* page() called with size 0 at pos, on a page whose declared offsets lie  *)
(* inside the page, ends its last range at the end of the buffer; and      *)
(* cookie() called with size 0 at pos refuses a record for its size        *)
(* exactly when its size field is not len(data) - pos.                     *)
(***************************************************************************)
C14_PageSizeZero ==
    (/\ pc = "ranges" /\ ret.ok /\ call.size = 0
     /\ DeclaredCount > 0
     /\ Least(DeclaredOffsets) = 8 + 4 * (DeclaredCount + 1)
     /\ Greatest(DeclaredOffsets) <= Len(data) - call.pos) =>
        LET rs == ret.val.v
            k  == DeclaredCount
        IN  rs[k][1] + rs[k][2] = Len(data)

C14_CookieSizeZero ==
    (/\ pc = "decoded" /\ call.fn = "cookie" /\ call.size = 0
     /\ call.pos + 4 <= Len(data)) =>
        /\ ret.ok => FieldLE(call.pos) = Len(data) - call.pos
        /\ FieldLE(call.pos) # Len(data) - call.pos =>
              ~ret.ok /\ ret.msg = "cookie size mismatch"
        /\ FieldLE(call.pos) = Len(data) - call.pos =>
              ret.msg # "cookie size mismatch"

C14_SizeZeroIsRemaining == C14_PageSizeZero /\ C14_CookieSizeZero

\* What the code does: size 0 stands for len(data), whatever pos is.
C14_SizeZeroIsLength ==
    /\ (pc = "ranges" /\ ret.ok /\ call.size = 0 /\ DeclaredCount > 0
        /\ Greatest(DeclaredOffsets) <= Len(data)) =>
          ret.val.v[DeclaredCount][1] + ret.val.v[DeclaredCount][2] = call.pos + Len(data)
    /\ (pc = "decoded" /\ call.fn = "cookie" /\ call.size = 0 /\ ret.ok) =>
          FieldLE(call.pos) = Len(data)

(***************************************************************************)
(* C15.  After process_apple_cookies or process_binary_cookies has popped  *)
(* the positions of the kill map, the greatest first, the list holds       *)
(* exactly the cookies whose positions in the list that was read are not   *)
(* in the kill map, in their order, and is shorter by the size of the kill *)
(* map; no pop fails; and the store is written, with that list, only when  *)
(* the kill map is not empty and dry_run is off.                           *)
(***************************************************************************)
\* The elements of xs from position p on whose positions are not in K.
RECURSIVE SurvivorsFrom(_, _, _)
SurvivorsFrom(xs, K, p) ==
    IF p >= Len(xs) THEN <<>>
    ELSE (IF p \in K THEN <<>> ELSE <<xs[p + 1]>>) \o SurvivorsFrom(xs, K, p + 1)

C15_PopLoop ==
    /\ (call.fn = "main" /\ pc = "crashed") => ret.exc # "IndexError"
    /\ pc \in {"apple", "binary"} =>
          LET before == ret.val.read
              K      == DOMAIN ret.val.icky
          IN  /\ ret.val.icky =
                    find_bad_cookies(before, rules.allow, rules.deny, rules.keep)
              /\ cdb = SurvivorsFrom(before, K, 0)
              /\ Len(cdb) = Len(before) - Cardinality(K)
              /\ ret.val.wrote <=> (K # {} /\ ~call.dry_run)
              /\ ret.val.store = IF ret.val.wrote THEN cdb ELSE before

\* Reached: of a store of three, the first cookie is popped for a deny rule
\* and the last for want of an allow rule, the one between them stays, and
\* the store is written.
C15_Witness ==
    /\ pc = "binary"
    /\ ret.val.read = <<CookieAB, CookieB, CookieAb>>
    /\ DOMAIN ret.val.icky = {0, 2}
    /\ ret.val.icky[0] = Because(RuleName)
    /\ ret.val.icky[2] = NoReason
    /\ cdb = <<CookieB>>
    /\ ~call.dry_run /\ ret.val.wrote /\ ret.val.store = cdb

============================================================================
